---- MODULE Spec2Model ----
(***************************************************************************)
(* Model of the camera-access-app: the camera gateway (camera.ts), the     *)
(* biometric gateway and credential store (webauthn.ts) and the            *)
(* orchestrator (main.ts, the version with the WebAuthn button).           *)
(*                                                                         *)
(* One action is one run-to-completion step of the browser's event loop:   *)
(* a handler (or the continuation of an async function after an await)     *)
(* together with every microtask it queues.                                *)
(***************************************************************************)
EXTENDS Integers, Sequences, FiniteSets, TLC

(* ------------------------------ bounds --------------------------------- *)

\* Stream objects the platform can hand out that are still referenced.
MaxStreams == 2
\* Concurrent activations of handleWebAuthnAuthentication that can be told apart.
MaxFlows == 2
\* Auto-stop timers pending at a time.
MaxTimers == 2
\* startCamera() activations awaiting requestCameraAccess() at a time.
MaxStartCamera == 2
\* Length of a credential identifier (rawId), in bytes.
MaxIdLen == 3

(* ------------------------- values and options -------------------------- *)

\* JavaScript null / a present value, for values that are sequences.
Null == [has |-> FALSE, v |-> <<>>]
Some(x) == [has |-> TRUE, v |-> x]

\* rawId values of the credentials the platform creates: one identifier of
\* each length 1..MaxIdLen, its bytes alternating 0xA5 and 0xFF.  A WebAuthn
\* credential identifier is never empty.
CredentialId(n) == [i \in 1..n |-> IF i % 2 = 1 THEN 165 ELSE 255]
CredentialIds == {CredentialId(n) : n \in 1..MaxIdLen}

(* ------------------------- base64 (btoa / atob) ------------------------ *)

\* A base64 string is a sequence of characters: the 64 digits are 0..63 and
\* the padding character '=' is Pad.
Pad == 64

\* The base64 digits of one group of at most three bytes, padded to four.
EncodeGroup(g) ==
    IF Len(g) = 3 THEN
        << g[1] \div 4,
           (g[1] % 4) * 16 + g[2] \div 16,
           (g[2] % 16) * 4 + g[3] \div 64,
           g[3] % 64 >>
    ELSE IF Len(g) = 2 THEN
        << g[1] \div 4,
           (g[1] % 4) * 16 + g[2] \div 16,
           (g[2] % 16) * 4,
           Pad >>
    ELSE
        << g[1] \div 4, (g[1] % 4) * 16, Pad, Pad >>

RECURSIVE btoa(_)
btoa(binary) ==
    IF Len(binary) = 0 THEN <<>>
    ELSE IF Len(binary) <= 3 THEN EncodeGroup(binary)
    ELSE EncodeGroup(SubSeq(binary, 1, 3)) \o btoa(SubSeq(binary, 4, Len(binary)))

\* atob throws (InvalidCharacterError) on a string that is not base64.
\* Padding is accepted only at the end of the last group.
ValidGroup(q, last) ==
    /\ q[1] # Pad /\ q[2] # Pad
    /\ (q[3] = Pad => q[4] = Pad)
    /\ (q[4] = Pad => last)
    /\ (q[3] = Pad => q[2] % 16 = 0)
    /\ (q[3] # Pad /\ q[4] = Pad => q[3] % 4 = 0)

atobThrows(s) ==
    \/ Len(s) % 4 # 0
    \/ \E i \in 1..(Len(s) \div 4) :
          ~ValidGroup(SubSeq(s, 4 * i - 3, 4 * i), i = Len(s) \div 4)

DecodeGroup(q) ==
    IF q[3] = Pad THEN
        << q[1] * 4 + q[2] \div 16 >>
    ELSE IF q[4] = Pad THEN
        << q[1] * 4 + q[2] \div 16, (q[2] % 16) * 16 + q[3] \div 4 >>
    ELSE
        << q[1] * 4 + q[2] \div 16,
           (q[2] % 16) * 16 + q[3] \div 4,
           (q[3] % 4) * 64 + q[4] >>

RECURSIVE atob(_)
atob(s) ==
    IF Len(s) < 4 THEN <<>>
    ELSE DecodeGroup(SubSeq(s, 1, 4)) \o atob(SubSeq(s, 5, Len(s)))

\* base64ToUint8Array: bytes[i] = binaryString.charCodeAt(i).
base64ToUint8Array(base64) == atob(base64)

\* uint8ArrayToBase64: binary += String.fromCharCode(bytes[i]); btoa(binary).
uint8ArrayToBase64_dropsTail(buffer) ==
    btoa(SubSeq(buffer, 1, Len(buffer) - 1))
uint8ArrayToBase64(buffer) == btoa(buffer)


(* ------------------------------- errors -------------------------------- *)

\* A message is a sequence of text fragments (their concatenation); the empty
\* string is <<>>.  A thrown value has the fields the catch blocks read:
\* name and message (DOMException), type (CameraError / WebAuthnError), and
\* the originalError it carries.  "" stands for an undefined field.
NoCause == << >>
PlatformError(n, m) == [name |-> n, message |-> m, type |-> "", cause |-> NoCause]
Classified(t, m, orig) ==
    [name |-> "", message |-> m, type |-> t,
     cause |-> IF orig = NoCause THEN NoCause ELSE <<orig.name, orig.message>>]
NoError == [name |-> "", message |-> <<>>, type |-> "", cause |-> NoCause]

\* error.message || 'Unknown error'
OrUnknown(m) == IF m = <<>> THEN <<"Unknown error">> ELSE m

\* Messages a platform error can carry.
PlatformMessages == {<<>>, <<"The operation failed">>}

\* Names of the errors getUserMedia rejects with.
CameraErrorNames ==
    {"NotAllowedError", "PermissionDeniedError", "NotFoundError",
     "DevicesNotFoundError", "NotReadableError", "TrackStartError",
     "OverconstrainedError"}
\* The names the gateway recognises come with one message, the others with
\* each message (the message is read only when the name is not recognised).
CameraPlatformErrors ==
    {PlatformError(n, <<"The operation failed">>) : n \in CameraErrorNames}
        \cup {PlatformError("OverconstrainedError", m) : m \in PlatformMessages}

\* Names of the errors navigator.credentials.create / get reject with.
WebAuthnErrorNames ==
    {"NotAllowedError", "NotSupportedError", "InvalidStateError",
     "TimeoutError", "AbortError", "SecurityError"}
WebAuthnPlatformErrors ==
    {PlatformError(n, <<"The operation failed">>) : n \in WebAuthnErrorNames}
        \cup {PlatformError("SecurityError", m) : m \in PlatformMessages}

CameraKinds == {"permission-denied", "not-found", "in-use", "not-supported", "unknown"}
WebAuthnKinds == {"not-supported", "not-allowed", "timeout", "invalid-state", "unknown"}

(* ------------------------------- state --------------------------------- *)

VARIABLES
    hasMediaDevices,    \* navigator.mediaDevices.getUserMedia exists
    hasWebAuthn,        \* window.PublicKeyCredential && navigator.credentials
    localStorage,       \* the item under CREDENTIAL_STORAGE_KEY, or Null
    registered,         \* history: rawId of the last credential registerCredential stored
    currentStream,      \* camera.ts: the tracked MediaStream (0 = null)
    live,               \* acquired streams whose tracks are not stopped
    previews,           \* history: the live streams a flow's secondary request acquired
    isCameraActive,
    isAuthenticating,
    isAuthenticated,
    video,              \* [srcObject, active]
    toggleButton,       \* [disabled, text, active]
    webauthnButton,     \* [disabled, text, authenticated]
    messages,           \* the #status-message, #error-message, #help-instructions divs
    startCameraCalls,   \* startCamera() activations awaiting requestCameraAccess()
    flows,              \* activations of handleWebAuthnAuthentication
    timers,             \* pending auto-stop timers
    direct,             \* a gateway call made directly, not through main.ts
    lastEvent           \* history: the last step and what its gateway call returned

envVars == <<hasMediaDevices, hasWebAuthn>>
storeVars == <<localStorage, registered>>
cameraVars == <<currentStream, live>>
flagVars == <<isCameraActive, isAuthenticating, isAuthenticated>>
domVars == <<video, toggleButton, webauthnButton, messages>>
pendingVars == <<startCameraCalls, flows, timers>>
mainVars == <<flagVars, domVars, pendingVars>>
vars == <<envVars, storeVars, cameraVars, previews, mainVars, direct, lastEvent>>

Streams == 1..MaxStreams
FlowIds == 1..MaxFlows

IdleFlow == [pc |-> "idle", allow |-> <<>>]
IdleDirect == [pc |-> "idle", allow |-> <<>>]

\* What lastEvent records of a step: the function that returned (or threw), its
\* caller and the error it threw.  A pending event is a call that reached its
\* platform request and is awaiting it.  rawId is the identifier of the
\* credential a registration was given; was is the stream camera.ts tracked
\* when a failed requestCameraAccess or a stopCamera began.
Event(op, by, ok, err) ==
    [op |-> op, by |-> by, ok |-> ok, err |-> err, pending |-> FALSE,
     rawId |-> << >>, was |-> 0]
Pending(op, by) ==
    [op |-> op, by |-> by, ok |-> FALSE, err |-> NoError, pending |-> TRUE,
     rawId |-> << >>, was |-> 0]
CameraFailed(by, err) ==
    [Event("requestCameraAccess", by, FALSE, err) EXCEPT !.was = currentStream]

(* -------------------------- credential store --------------------------- *)

CREDENTIAL_STORAGE_KEY == "webauthn_credential_id"

\* getStoredCredentialId, reading the item `stored`.
getStoredCredentialId(stored) ==
    IF ~stored.has \/ stored.v = <<>> THEN Null
    ELSE IF atobThrows(stored.v) THEN Null
    ELSE Some(base64ToUint8Array(stored.v))

\* storeCredentialId: the item after localStorage.setItem.
storeCredentialId(credentialId) == Some(uint8ArrayToBase64(credentialId))

\* clearStoredCredential: the item after localStorage.removeItem.
clearStoredCredential == Null

checkWebAuthnSupport == hasWebAuthn


(* ---------------------------- camera gateway --------------------------- *)

MsgCameraNotSupported ==
    "Camera access is not supported in this browser. Please use a modern browser like Chrome, Firefox, Safari, or Edge."
MsgCameraDenied == "Camera access was denied. Please allow camera access to continue."
MsgCameraNotFound == "No camera device found. Please connect a camera and try again."
MsgCameraInUse ==
    "Camera is currently in use by another application. Please close other apps using the camera and try again."
MsgCameraUnknown == "Unable to access camera: "

\* The CameraError thrown inside the try block when getUserMedia is missing.
CameraNotSupported == Classified("not-supported", <<MsgCameraNotSupported>>, NoCause)

\* The catch block of requestCameraAccess: switch (error.name).
CameraCatch_swapsInUse(err) ==
    IF err.name \in {"NotAllowedError", "PermissionDeniedError"} THEN
        Classified("permission-denied", <<MsgCameraDenied>>, err)
    ELSE IF err.name \in {"NotFoundError", "DevicesNotFoundError", "TrackStartError"} THEN
        Classified("not-found", <<MsgCameraNotFound>>, err)
    ELSE IF err.name \in {"NotReadableError"} THEN
        Classified("in-use", <<MsgCameraInUse>>, err)
    ELSE
        Classified("unknown", <<MsgCameraUnknown>> \o OrUnknown(err.message), err)
CameraCatch(err) ==
    IF err.name \in {"NotAllowedError", "PermissionDeniedError"} THEN
        Classified("permission-denied", <<MsgCameraDenied>>, err)
    ELSE IF err.name \in {"NotFoundError", "DevicesNotFoundError"} THEN
        Classified("not-found", <<MsgCameraNotFound>>, err)
    ELSE IF err.name \in {"NotReadableError", "TrackStartError"} THEN
        Classified("in-use", <<MsgCameraInUse>>, err)
    ELSE
        Classified("unknown", <<MsgCameraUnknown>> \o OrUnknown(err.message), err)

\* requestCameraAccess up to its await: TRUE when getUserMedia is called.
CameraRequestIssued == hasMediaDevices

\* What requestCameraAccess rejects with when it does not reach getUserMedia.
CameraRejectNow == CameraCatch(CameraNotSupported)

\* A stream object nothing refers to any more can stand for a new one.
Referenced == live \cup {currentStream, video.srcObject}
HasFreshStream == \E s \in Streams : s \notin Referenced
FreshStream == CHOOSE s \in Streams : s \notin Referenced /\
                   \A t \in Streams : t \notin Referenced => s <= t

\* requestCameraAccess after getUserMedia resolved with `stream`.
CameraResolved_untracked(stream) ==
    /\ currentStream' = currentStream
    /\ live' = live \cup {stream}
CameraResolved(stream) ==
    /\ currentStream' = stream
    /\ live' = live \cup {stream}

\* requestCameraAccess after getUserMedia rejected: the catch block touches
\* no module state.
CameraRejected_dropsStream ==
    /\ currentStream' = 0
    /\ live' = live
CameraRejected ==
    /\ currentStream' = currentStream
    /\ live' = live

\* stopCamera
stopCamera_keepsTracks ==
    IF currentStream # 0
    THEN /\ live' = live
         /\ currentStream' = 0
    ELSE UNCHANGED cameraVars
stopCamera ==
    IF currentStream # 0
    THEN /\ live' = live \ {currentStream}
         /\ currentStream' = 0
    ELSE UNCHANGED cameraVars


(* --------------------------- biometric gateway ------------------------- *)

MsgWebAuthnNotSupported ==
    "WebAuthn is not supported in this browser. Please use a modern browser like Chrome, Firefox, Safari, or Edge."
MsgCreateNull == "Failed to create credential. Please try again."
MsgRegNotAllowed ==
    "Biometric authentication was cancelled or denied. Please ensure you have Face ID, Touch ID, or Windows Hello set up on your device."
MsgRegNotSupported ==
    "This device does not support biometric authentication. Please ensure Face ID, Touch ID, or Windows Hello is enabled."
MsgRegInvalidState == "A credential is already registered for this device."
MsgRegTimeout ==
    "Authentication timed out. Please try again and complete the biometric verification within 60 seconds."
MsgRegUnknown == "Unable to register biometric authentication: "
MsgNoCredential == "No credential found. Please register first."
MsgGetNull == "Failed to authenticate. Please try again."
MsgAuthNotAllowed == "Biometric authentication was cancelled or denied."
MsgAuthNotSupported == "This device does not support biometric authentication."
MsgAuthInvalidState == "Invalid credential state. Please try registering again."
MsgAuthTimeout == "Authentication timed out. Please try again."
MsgAuthUnknown == "Unable to authenticate: "

\* What navigator.credentials.create / get settle with.
Credential(rawId) == [k |-> "credential", rawId |-> rawId, err |-> NoError]
NullCredential == [k |-> "null", rawId |-> <<>>, err |-> NoError]
Rejection(e) == [k |-> "error", rawId |-> <<>>, err |-> e]

CreateOutcomes ==
    {Credential(x) : x \in CredentialIds} \cup {NullCredential}
        \cup {Rejection(e) : e \in WebAuthnPlatformErrors}
\* get() resolves only with a credential of the allowCredentials list.
GetOutcomes(allow) ==
    {Credential(allow[i]) : i \in 1..Len(allow)} \cup {NullCredential}
        \cup {Rejection(e) : e \in WebAuthnPlatformErrors}

\* AuthenticationResult, or the WebAuthnError the call rejects with.
Success(isNew) == [success |-> TRUE, isNewRegistration |-> isNew, err |-> NoError]
Failure(e) == [success |-> FALSE, isNewRegistration |-> FALSE, err |-> e]

WebAuthnNotSupported ==
    Classified("not-supported", <<MsgWebAuthnNotSupported>>, NoCause)
CreateReturnedNull == Classified("unknown", <<MsgCreateNull>>, NoCause)
NoCredentialFound == Classified("invalid-state", <<MsgNoCredential>>, NoCause)
GetReturnedNull == Classified("unknown", <<MsgGetNull>>, NoCause)

\* The catch block of registerCredential.
RegisterCatch_reclassifies(err) ==
    IF err.name = "NotAllowedError" THEN
        Classified("not-allowed", <<MsgRegNotAllowed>>, err)
    ELSE IF err.name = "NotSupportedError" THEN
        Classified("not-supported", <<MsgRegNotSupported>>, err)
    ELSE IF err.name = "InvalidStateError" THEN
        Classified("invalid-state", <<MsgRegInvalidState>>, err)
    ELSE IF err.name \in {"TimeoutError", "AbortError"} THEN
        Classified("timeout", <<MsgRegTimeout>>, err)
    ELSE
        Classified("unknown", <<MsgRegUnknown>> \o OrUnknown(err.message), err)
RegisterCatch(err) ==
    IF err.type # "" THEN err
    ELSE IF err.name = "NotAllowedError" THEN
        Classified("not-allowed", <<MsgRegNotAllowed>>, err)
    ELSE IF err.name = "NotSupportedError" THEN
        Classified("not-supported", <<MsgRegNotSupported>>, err)
    ELSE IF err.name = "InvalidStateError" THEN
        Classified("invalid-state", <<MsgRegInvalidState>>, err)
    ELSE IF err.name \in {"TimeoutError", "AbortError"} THEN
        Classified("timeout", <<MsgRegTimeout>>, err)
    ELSE
        Classified("unknown", <<MsgRegUnknown>> \o OrUnknown(err.message), err)

\* The catch block of authenticateUser.
AuthenticateCatch_abortUnknown(err) ==
    IF err.type # "" THEN err
    ELSE IF err.name = "NotAllowedError" THEN
        Classified("not-allowed", <<MsgAuthNotAllowed>>, err)
    ELSE IF err.name = "NotSupportedError" THEN
        Classified("not-supported", <<MsgAuthNotSupported>>, err)
    ELSE IF err.name = "InvalidStateError" THEN
        Classified("invalid-state", <<MsgAuthInvalidState>>, err)
    ELSE IF err.name \in {"TimeoutError"} THEN
        Classified("timeout", <<MsgAuthTimeout>>, err)
    ELSE
        Classified("unknown", <<MsgAuthUnknown>> \o OrUnknown(err.message), err)
AuthenticateCatch(err) ==
    IF err.type # "" THEN err
    ELSE IF err.name = "NotAllowedError" THEN
        Classified("not-allowed", <<MsgAuthNotAllowed>>, err)
    ELSE IF err.name = "NotSupportedError" THEN
        Classified("not-supported", <<MsgAuthNotSupported>>, err)
    ELSE IF err.name = "InvalidStateError" THEN
        Classified("invalid-state", <<MsgAuthInvalidState>>, err)
    ELSE IF err.name \in {"TimeoutError", "AbortError"} THEN
        Classified("timeout", <<MsgAuthTimeout>>, err)
    ELSE
        Classified("unknown", <<MsgAuthUnknown>> \o OrUnknown(err.message), err)

\* registerCredential up to its await: TRUE when credentials.create is called.
RegisterIssued == checkWebAuthnSupport
\* What registerCredential rejects with when it does not reach the call.
RegisterRejectNow == Failure(RegisterCatch(WebAuthnNotSupported))

\* registerCredential after credentials.create settled with `outcome`.
RegisterResult(outcome) ==
    IF outcome.k = "credential" THEN Success(TRUE)
    ELSE IF outcome.k = "null" THEN Failure(RegisterCatch(CreateReturnedNull))
    ELSE Failure(RegisterCatch(outcome.err))
RegisterStore(outcome, stored) ==
    IF outcome.k = "credential" THEN storeCredentialId(outcome.rawId) ELSE stored

\* The store after authenticateUser has settled: the function reads the
\* stored identifier and never writes it.
AuthenticateStore_clearsOnFailure(outcome, stored) ==
    IF outcome.k = "credential" THEN stored ELSE Null
AuthenticateStore(outcome, stored) == stored

\* authenticateUser up to its await: TRUE when credentials.get is called.
AuthenticateIssued_skipsLookup(stored) == checkWebAuthnSupport
AuthenticateIssued(stored) ==
    checkWebAuthnSupport /\ getStoredCredentialId(stored).has
\* allowCredentials of the get call: the stored identifier alone.
AllowCredentials(stored) ==
    IF getStoredCredentialId(stored).has
    THEN << getStoredCredentialId(stored).v >>
    ELSE << >>
\* What authenticateUser rejects with when it does not reach the call.
AuthenticateRejectNow(stored) ==
    IF ~checkWebAuthnSupport THEN Failure(AuthenticateCatch(WebAuthnNotSupported))
    ELSE Failure(AuthenticateCatch(NoCredentialFound))

\* authenticateUser after credentials.get settled with `outcome`.
AuthenticateResult(outcome) ==
    IF outcome.k = "credential" THEN Success(FALSE)
    ELSE IF outcome.k = "null" THEN Failure(AuthenticateCatch(GetReturnedNull))
    ELSE Failure(AuthenticateCatch(outcome.err))


(* ------------------------------- main.ts ------------------------------- *)

TextEnableCamera == "Enable Camera"
TextRequesting == "Requesting access..."
TextStopCamera == "Stop Camera"
TextAuthenticate == "Authenticate with FaceID"
TextAuthenticating == "Authenticating..."
TextRegistering == "Registering..."
TextAuthenticated == "Authenticated"
MsgMainNotSupported ==
    "Your browser does not support biometric authentication. Please use a modern browser like Chrome, Safari, Firefox, or Edge."
MsgAuthSuccess == "Authentication successful! You have been verified with biometrics."
MsgRegSuccess ==
    "Biometric credential registered successfully! Click \"Authenticate with FaceID\" again to verify."

\* hideMessages adds the class `hidden` to the three divs.  The content of a
\* hidden div is never read, and every classList.remove('hidden') comes with
\* a new content, so a hidden div is recorded with its content blanked: the
\* state is what the page displays.
HiddenStatus == [hidden |-> TRUE, info |-> FALSE, text |-> ""]
HiddenError == [hidden |-> TRUE, text |-> << >>]
HiddenHelp == [hidden |-> TRUE, topic |-> ""]
hideMessages(m) ==
    [statusMessage |-> HiddenStatus,
     errorMessage |-> HiddenError,
     helpInstructions |-> HiddenHelp]

showStatusMessage_ignoresType(m, message, type) ==
    [m EXCEPT !.statusMessage =
        [hidden |-> FALSE, info |-> FALSE, text |-> message]]
showStatusMessage(m, message, type) ==
    [m EXCEPT !.statusMessage =
        [hidden |-> FALSE, info |-> (type = "info"), text |-> message]]

showError(m, error) ==
    [m EXCEPT
        !.errorMessage = [hidden |-> FALSE, text |-> error.message],
        !.helpInstructions =
            IF error.type = "permission-denied" THEN
                [hidden |-> FALSE, topic |-> "camera"]
            ELSE IF error.type \in {"not-allowed", "not-supported"} THEN
                [hidden |-> FALSE, topic |-> "webauthn"]
            ELSE @]

\* startCamera, the catch block.
StartCameraCatch(m, error) ==
    /\ messages' = showError(m, error)
    /\ toggleButton' = [disabled |-> FALSE, text |-> TextEnableCamera, active |-> FALSE]
    /\ video' = [video EXCEPT !.active = FALSE]
    /\ isCameraActive' = FALSE

\* startCamera: the toggle button's `disabled` while the request is pending.
RequestingDisabled_enabled == FALSE
RequestingDisabled == TRUE

\* startCamera up to its await.
startCamera ==
    /\ startCameraCalls < MaxStartCamera
    /\ IF CameraRequestIssued
       THEN /\ toggleButton' = [toggleButton EXCEPT !.disabled = RequestingDisabled,
                                                    !.text = TextRequesting]
            /\ messages' = hideMessages(messages)
            /\ startCameraCalls' = startCameraCalls + 1
            /\ lastEvent' = Pending("requestCameraAccess", "toggle")
            /\ UNCHANGED <<video, isCameraActive>>
       ELSE /\ StartCameraCatch(hideMessages(messages), CameraRejectNow)
            /\ lastEvent' = CameraFailed("toggle", CameraRejectNow)
            /\ UNCHANGED startCameraCalls
    /\ UNCHANGED <<envVars, storeVars, cameraVars, isAuthenticating,
                   isAuthenticated, webauthnButton, flows, timers, direct>>
    /\ previews' = previews \cap live'

handleStopCamera ==
    /\ stopCamera
    /\ video' = [srcObject |-> 0, active |-> FALSE]
    /\ isCameraActive' = FALSE
    /\ toggleButton' = [toggleButton EXCEPT !.text = TextEnableCamera, !.active = FALSE]
    /\ messages' = hideMessages(messages)
    /\ lastEvent' = Event("handleStopCamera", "toggle", TRUE, NoError)
    /\ UNCHANGED <<envVars, storeVars, isAuthenticating, isAuthenticated,
                   webauthnButton, pendingVars, direct>>
    /\ previews' = previews \cap live'

\* The click listener of the toggle button.  A disabled button gets no click.
ToggleClick ==
    /\ ~toggleButton.disabled
    /\ IF isCameraActive THEN handleStopCamera ELSE startCamera

\* startCamera resumed after `await requestCameraAccess()`.
StartCameraResume ==
    /\ startCameraCalls > 0
    /\ startCameraCalls' = startCameraCalls - 1
    /\ \/ /\ HasFreshStream
          /\ CameraResolved(FreshStream)
          /\ video' = [srcObject |-> FreshStream, active |-> TRUE]
          /\ isCameraActive' = TRUE
          /\ toggleButton' = [disabled |-> FALSE, text |-> TextStopCamera, active |-> TRUE]
          /\ lastEvent' = Event("requestCameraAccess", "toggle", TRUE, NoError)
          /\ UNCHANGED messages
       \/ \E e \in CameraPlatformErrors :
          /\ CameraRejected
          /\ StartCameraCatch(messages, CameraCatch(e))
          /\ lastEvent' = CameraFailed("toggle", CameraCatch(e))
    /\ UNCHANGED <<envVars, storeVars, isAuthenticating, isAuthenticated,
                   webauthnButton, flows, timers, direct>>
    /\ previews' = previews \cap live'


(* --------------------- handleWebAuthnAuthentication -------------------- *)

MainNotSupported == Classified("not-supported", <<MsgMainNotSupported>>, NoCause)

\* if (isAuthenticating) return;
GuardBusy_missing == FALSE
GuardBusy == isAuthenticating

\* finally { isAuthenticating = false; ... }
FinallyBusy_stuck == TRUE
FinallyBusy == FALSE

\* The call the handler awaits first, once WebAuthn support is established.
FirstAwait_swapped(hasCredential) ==
    IF hasCredential THEN "registerCredential" ELSE "authenticateUser"
FirstAwait_cameraFirst(hasCredential) ==
    IF hasCredential THEN "cameraAfterAuth" ELSE "cameraAfterReg"
FirstAwait(hasCredential) ==
    IF hasCredential THEN "authenticateUser" ELSE "registerCredential"

BiometricPcs == {"authenticateUser", "registerCredential"}
CameraPcs == {"cameraAfterAuth", "cameraAfterReg"}

HasIdleFlow == \E f \in FlowIds : flows[f].pc = "idle"
IdleFlowId == CHOOSE f \in FlowIds :
                  /\ flows[f].pc = "idle"
                  /\ \A g \in FlowIds : flows[g].pc = "idle" => f <= g

\* The catch block of the handler followed by its finally block, entered with
\* the message divs in state m.
FlowCatchFinally(m, error) ==
    /\ messages' = showError(m, error)
    /\ webauthnButton' = [disabled |-> FALSE, text |-> TextAuthenticate,
                          authenticated |-> FALSE]
    /\ isAuthenticated' = FALSE
    /\ IF video.srcObject # 0
       THEN /\ stopCamera
            /\ video' = [srcObject |-> 0, active |-> FALSE]
       ELSE UNCHANGED <<cameraVars, video>>
    /\ isAuthenticating' = FinallyBusy

\* The handler from its entry to its first await (or to its end).
handleWebAuthnAuthentication ==
    IF GuardBusy THEN
        /\ lastEvent' = Event("handleWebAuthnAuthentication", "guard", TRUE, NoError)
        /\ UNCHANGED <<envVars, previews, storeVars, cameraVars, mainVars, direct>>
    ELSE
        LET hasCredential == getStoredCredentialId(localStorage).has
            next == FirstAwait(hasCredential)
            issued == /\ checkWebAuthnSupport
                      /\ next = "authenticateUser" => AuthenticateIssued(localStorage)
                      /\ next = "registerCredential" => RegisterIssued
            error == IF ~checkWebAuthnSupport THEN MainNotSupported
                     ELSE IF next = "authenticateUser"
                          THEN AuthenticateRejectNow(localStorage).err
                          ELSE RegisterRejectNow.err
        IN
        /\ HasIdleFlow
        /\ IF issued
           THEN /\ isAuthenticating' = TRUE
                /\ webauthnButton' =
                       [webauthnButton EXCEPT
                           !.disabled = TRUE,
                           !.text = IF hasCredential THEN TextAuthenticating
                                    ELSE TextRegistering]
                /\ messages' = hideMessages(messages)
                /\ flows' = [flows EXCEPT ![IdleFlowId] =
                                [pc |-> next,
                                 allow |-> IF next = "authenticateUser"
                                           THEN AllowCredentials(localStorage)
                                           ELSE << >>]]
                /\ lastEvent' = Event("handleWebAuthnAuthentication", "flow", TRUE, NoError)
                /\ UNCHANGED <<cameraVars, video, isAuthenticated>>
           ELSE /\ FlowCatchFinally(hideMessages(messages), error)
                /\ lastEvent' = Event("handleWebAuthnAuthentication", "flow", FALSE, error)
                /\ UNCHANGED flows
        /\ UNCHANGED <<envVars, storeVars, isCameraActive, toggleButton,
                       startCameraCalls, timers, direct>>
        /\ previews' = previews \cap live'

\* The click listener of the WebAuthn button.  The listener is taken to run
\* for any click event dispatched to the button, also one that arrives while
\* a flow is in progress: the handler's own guard decides what it does then.
WebAuthnClick == handleWebAuthnAuthentication

\* The catch block around the secondary requestCameraAccess: the error is
\* logged to the console and the page is left as it is.
SecondaryCatch_showsError(m, cameraError) == showError(m, cameraError)
SecondaryCatch(m, cameraError) == m

\* The handler after a successful biometric call, from `if (result.success)`
\* to the await of the secondary requestCameraAccess (or to its end when
\* that call rejects at once and the rejection is swallowed).
FlowSuccess(f, isNew) ==
    /\ isAuthenticated' = IF isNew THEN isAuthenticated ELSE TRUE
    /\ LET shown == IF isNew THEN showStatusMessage(messages, MsgRegSuccess, "info")
                     ELSE showStatusMessage(messages, MsgAuthSuccess, "success")
       IN messages' = IF CameraRequestIssued THEN shown
                      ELSE SecondaryCatch(shown, CameraRejectNow)
    /\ IF CameraRequestIssued
       THEN /\ flows' = [flows EXCEPT ![f] =
                            [pc |-> IF isNew THEN "cameraAfterReg" ELSE "cameraAfterAuth",
                             allow |-> << >>]]
            /\ webauthnButton' =
                   IF isNew THEN [webauthnButton EXCEPT !.text = TextAuthenticate]
                   ELSE [webauthnButton EXCEPT !.text = TextAuthenticated,
                                               !.authenticated = TRUE]
            /\ UNCHANGED isAuthenticating
       ELSE /\ flows' = [flows EXCEPT ![f] = IdleFlow]
            /\ webauthnButton' =
                   IF isNew THEN [webauthnButton EXCEPT !.text = TextAuthenticate,
                                                        !.disabled = FALSE]
                   ELSE [webauthnButton EXCEPT !.text = TextAuthenticated,
                                               !.authenticated = TRUE,
                                               !.disabled = FALSE]
            /\ isAuthenticating' = FinallyBusy
    /\ UNCHANGED <<cameraVars, video>>

\* The handler resumed after `await authenticateUser()` / `await registerCredential()`.
BiometricSettle(f) ==
    /\ flows[f].pc \in BiometricPcs
    /\ \E outcome \in (IF flows[f].pc = "authenticateUser"
                       THEN GetOutcomes(flows[f].allow) ELSE CreateOutcomes) :
         LET isReg == flows[f].pc = "registerCredential"
             result == IF isReg THEN RegisterResult(outcome)
                       ELSE AuthenticateResult(outcome)
         IN
         /\ localStorage' = IF isReg THEN RegisterStore(outcome, localStorage)
                            ELSE AuthenticateStore(outcome, localStorage)
         /\ registered' = IF isReg /\ result.success THEN Some(outcome.rawId)
                          ELSE registered
         /\ lastEvent' = [Event(flows[f].pc, "flow", result.success, result.err)
                             EXCEPT !.rawId = IF isReg THEN outcome.rawId ELSE << >>]
         /\ IF result.success
            THEN FlowSuccess(f, isReg)
            ELSE /\ FlowCatchFinally(messages, result.err)
                 /\ flows' = [flows EXCEPT ![f] = IdleFlow]
    /\ UNCHANGED <<envVars, isCameraActive, toggleButton, startCameraCalls,
                   timers, direct>>
    /\ previews' = previews \cap live'

\* The handler resumed after the secondary `await requestCameraAccess()`.
FlowCameraSettle(f) ==
    /\ flows[f].pc \in CameraPcs
    /\ flows' = [flows EXCEPT ![f] = IdleFlow]
    /\ isAuthenticating' = FinallyBusy
    /\ webauthnButton' = [webauthnButton EXCEPT !.disabled = FALSE]
    /\ \/ /\ HasFreshStream
          /\ timers < MaxTimers
          /\ CameraResolved(FreshStream)
          /\ video' = [srcObject |-> FreshStream, active |-> TRUE]
          /\ timers' = timers + 1
          /\ previews' = previews \cup {FreshStream}
          /\ lastEvent' = Event("requestCameraAccess", "flow", TRUE, NoError)
          /\ UNCHANGED messages
       \/ \E e \in CameraPlatformErrors :
          /\ CameraRejected
          /\ messages' = SecondaryCatch(messages, CameraCatch(e))
          /\ lastEvent' = CameraFailed("flow", CameraCatch(e))
          /\ UNCHANGED <<video, timers, previews>>
    /\ UNCHANGED <<envVars, storeVars, isCameraActive, isAuthenticated,
                   toggleButton, startCameraCalls, direct>>

\* The setTimeout callback: auto-stop the camera after 3 seconds.
AutoStopTimer ==
    /\ timers > 0
    /\ timers' = timers - 1
    /\ stopCamera
    /\ video' = [srcObject |-> 0, active |-> FALSE]
    /\ lastEvent' = Event("autoStop", "timer", TRUE, NoError)
    /\ UNCHANGED <<envVars, storeVars, flagVars, toggleButton, webauthnButton,
                   messages, startCameraCalls, flows, direct>>
    /\ previews' = previews \cap live'


(* ------------------- the gateways called on their own ------------------ *)

\* requestCameraAccess() called by a client other than main.ts.
DirectRequestCamera ==
    /\ direct.pc = "idle"
    /\ IF CameraRequestIssued
       THEN /\ direct' = [pc |-> "getUserMedia", allow |-> << >>]
            /\ lastEvent' = Pending("requestCameraAccess", "direct")
       ELSE /\ direct' = IdleDirect
            /\ lastEvent' = CameraFailed("direct", CameraRejectNow)
    /\ UNCHANGED <<envVars, previews, storeVars, cameraVars, mainVars>>

DirectCameraSettle ==
    /\ direct.pc = "getUserMedia"
    /\ direct' = IdleDirect
    /\ \/ /\ HasFreshStream
          /\ CameraResolved(FreshStream)
          /\ lastEvent' = Event("requestCameraAccess", "direct", TRUE, NoError)
       \/ \E e \in CameraPlatformErrors :
          /\ CameraRejected
          /\ lastEvent' = CameraFailed("direct", CameraCatch(e))
    /\ UNCHANGED <<envVars, previews, storeVars, mainVars>>

DirectStopCamera ==
    /\ direct.pc = "idle"
    /\ stopCamera
    /\ lastEvent' = [Event("stopCamera", "direct", TRUE, NoError)
                        EXCEPT !.was = currentStream]
    /\ UNCHANGED <<envVars, previews, storeVars, mainVars, direct>>

\* registerCredential() called by a client other than main.ts.
DirectRegister ==
    /\ direct.pc = "idle"
    /\ IF RegisterIssued
       THEN /\ direct' = [pc |-> "create", allow |-> << >>]
            /\ lastEvent' = Pending("registerCredential", "direct")
       ELSE /\ direct' = IdleDirect
            /\ lastEvent' = Event("registerCredential", "direct", FALSE,
                                  RegisterRejectNow.err)
    /\ UNCHANGED <<envVars, previews, storeVars, cameraVars, mainVars>>

\* authenticateUser() called by a client other than main.ts.
DirectAuthenticate ==
    /\ direct.pc = "idle"
    /\ IF AuthenticateIssued(localStorage)
       THEN /\ direct' = [pc |-> "get", allow |-> AllowCredentials(localStorage)]
            /\ lastEvent' = Pending("authenticateUser", "direct")
       ELSE /\ direct' = IdleDirect
            /\ lastEvent' = Event("authenticateUser", "direct", FALSE,
                                  AuthenticateRejectNow(localStorage).err)
    /\ UNCHANGED <<envVars, previews, storeVars, cameraVars, mainVars>>

DirectCredentialSettle ==
    /\ direct.pc \in {"create", "get"}
    /\ direct' = IdleDirect
    /\ \E outcome \in (IF direct.pc = "get" THEN GetOutcomes(direct.allow)
                       ELSE CreateOutcomes) :
         LET isReg == direct.pc = "create"
             result == IF isReg THEN RegisterResult(outcome)
                       ELSE AuthenticateResult(outcome)
         IN
         /\ localStorage' = IF isReg THEN RegisterStore(outcome, localStorage)
                            ELSE AuthenticateStore(outcome, localStorage)
         /\ registered' = IF isReg /\ result.success THEN Some(outcome.rawId)
                          ELSE registered
         /\ lastEvent' = [Event(IF isReg THEN "registerCredential" ELSE "authenticateUser",
                                "direct", result.success, result.err)
                             EXCEPT !.rawId = IF isReg THEN outcome.rawId ELSE << >>]
    /\ UNCHANGED <<envVars, previews, cameraVars, mainVars>>

\* clearStoredCredential() called by a client other than main.ts.
DirectClearStored ==
    /\ direct.pc = "idle"
    /\ localStorage' = clearStoredCredential
    /\ registered' = Null
    /\ lastEvent' = Event("clearStoredCredential", "direct", TRUE, NoError)
    /\ UNCHANGED <<envVars, previews, cameraVars, mainVars, direct>>

(* --------------------------- specifications ---------------------------- *)

Init ==
    /\ hasMediaDevices \in BOOLEAN
    /\ hasWebAuthn \in BOOLEAN
    /\ localStorage \in {Null} \cup {storeCredentialId(x) : x \in CredentialIds}
    /\ registered = Null
    /\ currentStream = 0
    /\ live = {}
    /\ previews = {}
    /\ isCameraActive = FALSE
    /\ isAuthenticating = FALSE
    /\ isAuthenticated = FALSE
    /\ video = [srcObject |-> 0, active |-> FALSE]
    /\ toggleButton = [disabled |-> FALSE, text |-> TextEnableCamera, active |-> FALSE]
    /\ webauthnButton = [disabled |-> FALSE, text |-> TextAuthenticate,
                         authenticated |-> FALSE]
    /\ messages = [statusMessage |-> HiddenStatus,
                   errorMessage |-> HiddenError,
                   helpInstructions |-> HiddenHelp]
    /\ startCameraCalls = 0
    /\ flows = [f \in FlowIds |-> IdleFlow]
    /\ timers = 0
    /\ direct = IdleDirect
    /\ lastEvent = [op |-> "init", by |-> "", ok |-> TRUE, err |-> NoError,
                    pending |-> FALSE, rawId |-> << >>, was |-> 0]

\* The application: the page's two buttons, the platform and the timers.
Next ==
    \/ ToggleClick
    \/ StartCameraResume
    \/ WebAuthnClick
    \/ \E f \in FlowIds : BiometricSettle(f)
    \/ \E f \in FlowIds : FlowCameraSettle(f)
    \/ AutoStopTimer

Spec == Init /\ [][Next]_vars

\* The application on a platform whose pending calls settle: every
\* credentials.create / credentials.get promise and every getUserMedia
\* promise a flow awaits is eventually resolved or rejected, and the
\* continuation of the await then runs.  Clicks and timers are left free.
SpecSettling ==
    /\ Init /\ [][Next]_vars
    /\ WF_vars(\E f \in FlowIds : BiometricSettle(f))
    /\ WF_vars(\E f \in FlowIds : FlowCameraSettle(f))

\* The gateway modules (camera.ts, webauthn.ts) driven by a sequential client.
NextGateway ==
    \/ DirectRequestCamera
    \/ DirectCameraSettle
    \/ DirectStopCamera
    \/ DirectRegister
    \/ DirectAuthenticate
    \/ DirectCredentialSettle
    \/ DirectClearStored

SpecGateway == Init /\ [][NextGateway]_vars


(* ------------------------------ properties ----------------------------- *)

\* navigator.credentials.create / get calls that have not settled.
CredentialCallsInFlight ==
    Cardinality({f \in FlowIds : flows[f].pc \in BiometricPcs})
        + (IF direct.pc \in {"create", "get"} THEN 1 ELSE 0)

\* Activations of handleWebAuthnAuthentication between their guard and their
\* finally block.
FlowsInProgress == {f \in FlowIds : flows[f].pc # "idle"}

\* C1: a call of handleWebAuthnAuthentication made while isAuthenticating is
\* true changes nothing of the program's state and issues no platform call,
\* and after every step at most one credentials.create / get call is in flight.
C1_ReentrancyGuard ==
    [][ /\ (isAuthenticating /\ lastEvent'.op = "handleWebAuthnAuthentication")
            => UNCHANGED <<envVars, storeVars, cameraVars, mainVars, direct>>
        /\ CredentialCallsInFlight' <= 1 ]_vars

\* A second trigger has arrived while the first flow's call is in flight, and
\* exactly one credential-API call is in flight.
C1_Witness ==
    /\ lastEvent.op = "handleWebAuthnAuthentication"
    /\ lastEvent.by = "guard"
    /\ isAuthenticating
    /\ CredentialCallsInFlight = 1

\* C2: a flow leaves its trigger step awaiting the register-or-authenticate
\* call or finished, never awaiting a camera request; the trigger step starts
\* no camera request and no timer; and a flow comes to await its camera
\* request only in the step in which its biometric call returned success.
C2_GestureOrdering ==
    [][ /\ \A f \in FlowIds :
            /\ flows[f].pc = "idle" => flows'[f].pc \in {"idle"} \cup BiometricPcs
            /\ (flows'[f].pc \in CameraPcs /\ flows[f].pc # flows'[f].pc)
                 => /\ flows[f].pc \in BiometricPcs
                    /\ lastEvent'.op = flows[f].pc
                    /\ lastEvent'.ok
        /\ lastEvent'.op = "handleWebAuthnAuthentication"
             => /\ startCameraCalls' = startCameraCalls
                /\ timers' = timers ]_vars

\* A flow is awaiting its secondary camera request right after its biometric
\* call succeeded.
C2_Witness ==
    /\ \E f \in FlowIds : flows[f].pc \in CameraPcs
    /\ lastEvent.op \in BiometricPcs
    /\ lastEvent.ok

\* C3 as stated: isAuthenticating is true exactly when one
\* register-or-authenticate call is in flight.
C3_BusyIffCallInFlight ==
    isAuthenticating <=> (CredentialCallsInFlight = 1)

\* C3 as amended: isAuthenticating is true exactly when one flow is in
\* progress (awaiting its biometric call or its secondary camera request);
\* at most one flow is in progress, so at most one biometric call is in
\* flight, and the flag is true whenever one is.
C3_BusyIffFlowInProgress ==
    /\ isAuthenticating <=> (Cardinality(FlowsInProgress) = 1)
    /\ Cardinality(FlowsInProgress) <= 1
    /\ CredentialCallsInFlight = 1 => isAuthenticating

\* The flag is still true while the flow awaits its secondary camera request
\* and no biometric call is in flight.
C3_Witness ==
    /\ isAuthenticating
    /\ CredentialCallsInFlight = 0
    /\ \E f \in FlowIds : flows[f].pc \in CameraPcs

\* C4: at most one acquired stream has un-stopped tracks, and it is the
\* stream camera.ts tracks.
C4_SingleLiveStream ==
    /\ Cardinality(live) <= 1
    /\ \A s \in live : s = currentStream

\* C5 as stated: authenticateUser called with no stored identifier throws
\* invalid-state, calls credentials.get zero times and leaves the store alone.
C5_NoCredentialInvalidState ==
    [][ (lastEvent'.op = "authenticateUser" /\ direct.pc = "idle"
            /\ ~getStoredCredentialId(localStorage).has)
          => /\ ~lastEvent'.pending /\ ~lastEvent'.ok
             /\ lastEvent'.err.type = "invalid-state"
             /\ direct'.pc = "idle"
             /\ localStorage' = localStorage ]_vars

\* C5 as amended: with no stored identifier authenticateUser throws
\* invalid-state when WebAuthn is supported and not-supported when it is
\* not; in both cases it calls credentials.get zero times and leaves the
\* store alone.
C5_NoCredentialNoPlatformCall ==
    [][ (lastEvent'.op = "authenticateUser" /\ direct.pc = "idle"
            /\ ~getStoredCredentialId(localStorage).has)
          => /\ ~lastEvent'.pending /\ ~lastEvent'.ok
             /\ lastEvent'.err.type =
                    (IF hasWebAuthn THEN "invalid-state" ELSE "not-supported")
             /\ direct'.pc = "idle"
             /\ localStorage' = localStorage ]_vars

\* authenticateUser has just thrown invalid-state with nothing stored.
C5_Witness ==
    /\ lastEvent.op = "authenticateUser"
    /\ lastEvent.err.type = "invalid-state"
    /\ lastEvent.err.message = <<MsgNoCredential>>
    /\ ~localStorage.has
    /\ direct.pc = "idle"


\* C6: once registerCredential has succeeded with a credential whose rawId is
\* X, the identifier read back from the store is X and is not empty, and
\* every credentials.get call in flight carries allowCredentials = <<X>>.
C6_RegisterAuthenticateRoundTrip ==
    registered.has =>
        /\ Len(registered.v) > 0
        /\ getStoredCredentialId(localStorage) = registered
        /\ \A f \in FlowIds :
              flows[f].pc = "authenticateUser" => flows[f].allow = <<registered.v>>
        /\ direct.pc = "get" => direct.allow = <<registered.v>>

\* An authenticateUser call is in flight after a registration whose
\* identifier has the longest length.
C6_Witness ==
    /\ registered.has
    /\ Len(registered.v) = MaxIdLen
    /\ \E f \in FlowIds :
          flows[f].pc = "authenticateUser" /\ Len(flows[f].allow) = 1

\* C7: stopCamera never throws; with no stream tracked it changes nothing;
\* with a stream tracked it stops that stream's tracks, touches no other
\* stream and clears the tracked stream (so a second call finds none).
C7_StopCameraIdempotent ==
    [][ lastEvent'.op = "stopCamera" =>
          /\ lastEvent'.ok
          /\ currentStream' = 0
          /\ currentStream = 0 => UNCHANGED <<cameraVars, storeVars, mainVars, direct>>
          /\ currentStream # 0 => live' = live \ {currentStream} ]_vars

\* stopCamera has just released a tracked stream.
C7_Witness ==
    /\ lastEvent.op = "stopCamera"
    /\ lastEvent.was # 0
    /\ lastEvent.was \notin live
    /\ currentStream = 0

\* C8: a requestCameraAccess that fails leaves the tracked stream and every
\* stream's tracks as they were, and the tracked stream is replaced by another
\* stream only in a step in which requestCameraAccess succeeded.
C8_FailedRequestKeepsStream ==
    [][ /\ (lastEvent'.op = "requestCameraAccess" /\ ~lastEvent'.pending
               /\ ~lastEvent'.ok)
            => UNCHANGED cameraVars
        /\ (currentStream' # currentStream /\ currentStream' # 0)
            => (lastEvent'.op = "requestCameraAccess" /\ lastEvent'.ok) ]_vars

\* A request has just failed while a stream was tracked, and that stream is
\* still tracked and un-stopped.
C8_Witness ==
    /\ lastEvent.op = "requestCameraAccess"
    /\ ~lastEvent.ok /\ ~lastEvent.pending
    /\ lastEvent.was # 0
    /\ currentStream = lastEvent.was
    /\ currentStream \in live

\* The kind the documented table gives a platform error name.
CameraTable(name) ==
    CASE name \in {"NotAllowedError", "PermissionDeniedError"} -> "permission-denied"
      [] name \in {"NotFoundError", "DevicesNotFoundError"} -> "not-found"
      [] name \in {"NotReadableError", "TrackStartError"} -> "in-use"
      [] OTHER -> "unknown"

\* C9: when getUserMedia rejects with a platform error, requestCameraAccess
\* throws an error of the kind the table gives the platform error's name,
\* one of the five camera kinds; it keeps the platform error, and when the
\* kind is unknown its message ends with the platform error's message.
C9_CameraClassifierTable ==
    (lastEvent.op = "requestCameraAccess" /\ ~lastEvent.ok /\ ~lastEvent.pending
        /\ lastEvent.err.cause # NoCause /\ lastEvent.err.cause[1] # "")
      => /\ lastEvent.err.type = CameraTable(lastEvent.err.cause[1])
         /\ lastEvent.err.type \in CameraKinds
         /\ (lastEvent.err.type = "unknown" /\ lastEvent.err.cause[2] # << >>)
              => SubSeq(lastEvent.err.message, 2, Len(lastEvent.err.message))
                     = lastEvent.err.cause[2]

\* requestCameraAccess has just thrown `unknown` for an unrecognised name,
\* with the platform's message in its own.
C9_Witness ==
    /\ lastEvent.op = "requestCameraAccess"
    /\ lastEvent.err.type = "unknown"
    /\ lastEvent.err.cause = <<"OverconstrainedError", <<"The operation failed">> >>
    /\ lastEvent.err.message = <<MsgCameraUnknown, "The operation failed">>

\* C10: when getUserMedia does not exist, requestCameraAccess throws
\* not-supported and issues no platform request.
C10_NotSupportedWhenAbsent ==
    (lastEvent.op = "requestCameraAccess" /\ ~hasMediaDevices)
      => /\ ~lastEvent.ok /\ ~lastEvent.pending
         /\ lastEvent.err.type = "not-supported"

\* The kind the documented table gives a platform error name of the
\* credentials API.
WebAuthnTable(name) ==
    CASE name = "NotAllowedError" -> "not-allowed"
      [] name = "NotSupportedError" -> "not-supported"
      [] name = "InvalidStateError" -> "invalid-state"
      [] name \in {"TimeoutError", "AbortError"} -> "timeout"
      [] OTHER -> "unknown"

\* The error was built by a catch block from an error the platform threw.
PlatformCaused(err) == err.cause # NoCause /\ err.cause[1] # ""

\* C11: when credentials.create or credentials.get rejects with a platform
\* error, registerCredential and authenticateUser alike throw an error of
\* the kind the table gives the platform error's name, one of the five
\* biometric kinds; when the kind is unknown its message ends with the
\* platform error's message.
C11_WebAuthnClassifierTable ==
    (lastEvent.op \in {"registerCredential", "authenticateUser"}
        /\ ~lastEvent.ok /\ ~lastEvent.pending /\ PlatformCaused(lastEvent.err))
      => /\ lastEvent.err.type = WebAuthnTable(lastEvent.err.cause[1])
         /\ lastEvent.err.type \in WebAuthnKinds
         /\ (lastEvent.err.type = "unknown" /\ lastEvent.err.cause[2] # << >>)
              => SubSeq(lastEvent.err.message, 2, Len(lastEvent.err.message))
                     = lastEvent.err.cause[2]

\* authenticateUser has just thrown `timeout` for an AbortError.
C11_Witness ==
    /\ lastEvent.op = "authenticateUser"
    /\ ~lastEvent.ok
    /\ lastEvent.err.type = "timeout"
    /\ lastEvent.err.cause[1] = "AbortError"

\* C12: an error that registerCredential or authenticateUser raised itself
\* (no support, no stored credential, a null credential from the platform)
\* leaves the function with the kind and the message it was built with:
\* the catch block does not classify it again.
C12_ClassifiedRethrownUnchanged ==
    [][(lastEvent'.op \in {"registerCredential", "authenticateUser"}
          /\ lastEvent'.by = "direct"
          /\ ~lastEvent'.ok /\ ~lastEvent'.pending
          /\ ~PlatformCaused(lastEvent'.err))
        => lastEvent'.err =
             IF direct.pc = "idle"
             THEN (IF hasWebAuthn THEN NoCredentialFound ELSE WebAuthnNotSupported)
             ELSE IF direct.pc = "create" THEN CreateReturnedNull
             ELSE GetReturnedNull]_vars

\* registerCredential has just thrown the unknown error it raised for a
\* null credential.
C12_Witness ==
    /\ lastEvent.op = "registerCredential"
    /\ lastEvent.by = "direct"
    /\ lastEvent.err.type = "unknown"
    /\ lastEvent.err.message = <<MsgCreateNull>>
    /\ lastEvent.err.cause = NoCause

\* C13: when a flow that found no stored credential has its
\* credentials.create call succeed, the store then holds the new
\* credential's id, the info status inviting to authenticate is shown and
\* the user is not authenticated, during the secondary camera acquisition
\* and when the flow ends.
C13_RegistrationOutcome ==
    [][/\ (lastEvent'.op = "registerCredential" /\ lastEvent'.by = "flow"
             /\ lastEvent'.ok)
          => /\ ~getStoredCredentialId(localStorage).has
             /\ getStoredCredentialId(localStorage') = Some(lastEvent'.rawId)
             /\ messages'.statusMessage =
                    [hidden |-> FALSE, info |-> TRUE, text |-> MsgRegSuccess]
             /\ ~isAuthenticated'
             /\ ~webauthnButton'.authenticated
       /\ \A f \in FlowIds :
            flows[f].pc = "cameraAfterReg"
              => /\ ~isAuthenticated /\ ~isAuthenticated'
                 /\ ~webauthnButton'.authenticated]_vars

\* A flow that registered a credential has ended, its secondary camera
\* request included, with the credential stored and the user not
\* authenticated.
C13_Witness ==
    /\ lastEvent.op = "requestCameraAccess"
    /\ lastEvent.by = "flow"
    /\ registered.has
    /\ getStoredCredentialId(localStorage) = registered
    /\ ~isAuthenticating
    /\ ~isAuthenticated
    /\ messages.statusMessage.text = MsgRegSuccess

\* C14: when a flow that found a stored credential has its credentials.get
\* call succeed, the user is authenticated, the success status is shown and
\* the secondary camera request is made; a stream that request acquired is
\* released by the auto-stop timer, so while its tracks are live it is the
\* stream stopCamera will stop and a timer is pending.
C14_AuthenticationOutcomeAutoRelease ==
    /\ (lastEvent.op = "authenticateUser" /\ lastEvent.by = "flow" /\ lastEvent.ok)
         => /\ isAuthenticated
            /\ messages.statusMessage =
                   [hidden |-> FALSE, info |-> FALSE, text |-> MsgAuthSuccess]
            /\ hasMediaDevices => \E f \in FlowIds : flows[f].pc = "cameraAfterAuth"
    /\ \A s \in previews :
         s \in live => (currentStream = s /\ timers > 0)

\* C15: when the registerCredential or authenticateUser call of a flow has
\* failed, the flow ends with the error displayed, the user not
\* authenticated, no stream tracked by the camera gateway, and the camera's
\* reflection in the page cleared: isCameraActive false and the video
\* element without stream and not shown.
C15_BiometricFailureHandling ==
    (lastEvent.op \in BiometricPcs /\ lastEvent.by = "flow" /\ ~lastEvent.ok)
      => /\ messages.errorMessage = [hidden |-> FALSE, text |-> lastEvent.err.message]
         /\ ~isAuthenticated
         /\ ~isAuthenticating
         /\ currentStream = 0
         /\ ~isCameraActive
         /\ video = [srcObject |-> 0, active |-> FALSE]

\* C16: a flow that has passed the guard ends with isAuthenticating false
\* and the WebAuthn button enabled: in the same step when the support check
\* or the gateway rejects before any platform call, and eventually, once
\* the pending platform calls have settled, on every other path.
C16_BusyAlwaysCleared ==
    /\ [][(lastEvent'.op = "handleWebAuthnAuthentication" /\ lastEvent'.by = "flow"
             /\ ~lastEvent'.ok)
            => (~isAuthenticating' /\ ~webauthnButton'.disabled)]_vars
    /\ isAuthenticating ~> (~isAuthenticating /\ ~webauthnButton.disabled)

\* A flow went all the way through its secondary camera request and has
\* ended with the flag cleared and the button enabled.
C16_Witness ==
    /\ lastEvent.op = "requestCameraAccess"
    /\ lastEvent.by = "flow"
    /\ lastEvent.ok
    /\ isAuthenticated
    /\ ~isAuthenticating
    /\ ~webauthnButton.disabled

\* C17: when the secondary requestCameraAccess of a flow fails, whatever
\* the kind, the step displays no error and leaves all messages as they
\* were, the outcome of the biometric call stands (isAuthenticated and the
\* button's text keep their values, true after an authentication), the
\* camera and the video element are not touched as the catch block of the
\* flow would, and no call is pending for the flow afterwards.  The same
\* holds when that request is rejected at once, in the step that handles
\* the biometric success.
C17_SecondaryFailureSuppressed ==
    [][/\ (lastEvent'.op = "requestCameraAccess" /\ lastEvent'.by = "flow"
             /\ ~lastEvent'.ok)
          => /\ lastEvent'.err.type \in CameraKinds
             /\ messages' = messages
             /\ isAuthenticated' = isAuthenticated
             /\ (\E f \in FlowIds : flows[f].pc = "cameraAfterAuth") => isAuthenticated'
             /\ webauthnButton'.text = webauthnButton.text
             /\ webauthnButton'.authenticated = webauthnButton.authenticated
             /\ UNCHANGED <<cameraVars, video, isCameraActive, startCameraCalls>>
             /\ \A f \in FlowIds : flows'[f].pc = "idle"
       /\ (lastEvent'.op \in BiometricPcs /\ lastEvent'.by = "flow" /\ lastEvent'.ok
             /\ ~hasMediaDevices)
          => /\ messages'.errorMessage = messages.errorMessage
             /\ messages'.helpInstructions = messages.helpInstructions
             /\ ~messages'.statusMessage.hidden
             /\ isAuthenticated' = (isAuthenticated \/ lastEvent'.op = "authenticateUser")
             /\ UNCHANGED <<cameraVars, video, isCameraActive, startCameraCalls>>
             /\ \A f \in FlowIds : flows'[f].pc = "idle"]_vars

\* The secondary request of an authenticating flow has just failed: the
\* user is still authenticated, the success status still shown, no error.
C17_Witness ==
    /\ lastEvent.op = "requestCameraAccess"
    /\ lastEvent.by = "flow"
    /\ ~lastEvent.ok
    /\ lastEvent.err.type = "in-use"
    /\ isAuthenticated
    /\ messages.statusMessage = [hidden |-> FALSE, info |-> FALSE, text |-> MsgAuthSuccess]
    /\ messages.errorMessage.hidden

\* The kinds whose errors are displayed with remediation instructions.
RemediationKinds == {"permission-denied", "not-allowed", "not-supported"}

\* The last step ended in showError(lastEvent.err): a failed startCamera,
\* or the catch block of handleWebAuthnAuthentication.
ErrorJustDisplayed ==
    /\ ~lastEvent.ok /\ ~lastEvent.pending
    /\ \/ lastEvent.op = "requestCameraAccess" /\ lastEvent.by = "toggle"
       \/ lastEvent.op \in BiometricPcs \cup {"handleWebAuthnAuthentication"}
            /\ lastEvent.by = "flow"

\* C18: when an error has been displayed, its message is shown and the
\* remediation list is shown if and only if the error's kind is
\* permission-denied, not-allowed or not-supported; a camera toggle that
\* failed with not-found leaves the camera not active and the list hidden.
C18_RemediationIffPermissionOrSupport ==
    ErrorJustDisplayed
      => /\ messages.errorMessage = [hidden |-> FALSE, text |-> lastEvent.err.message]
         /\ ~messages.helpInstructions.hidden <=> lastEvent.err.type \in RemediationKinds
         /\ (lastEvent.by = "toggle" /\ lastEvent.err.type = "not-found")
              => ~isCameraActive /\ messages.helpInstructions.hidden

\* C19: a flow that passes the guard and the support check issues one
\* platform call: credentials.get when a credential id is stored at the
\* click, credentials.create otherwise; when the support check fails it
\* issues none and fails with not-supported.  A flow issues no second
\* biometric call: after the call has settled the flow only goes on to its
\* secondary camera request or ends.
C19_RegisterOrAuthenticate ==
    [][/\ (lastEvent'.op = "handleWebAuthnAuthentication" /\ lastEvent'.by = "flow")
          => IF hasWebAuthn
             THEN /\ lastEvent'.ok
                  /\ \E f \in FlowIds :
                       /\ flows[f].pc = "idle"
                       /\ flows'[f].pc = IF getStoredCredentialId(localStorage).has
                                         THEN "authenticateUser"
                                         ELSE "registerCredential"
                       /\ \A g \in FlowIds \ {f} : flows'[g] = flows[g]
                  /\ CredentialCallsInFlight' = CredentialCallsInFlight + 1
             ELSE /\ ~lastEvent'.ok
                  /\ lastEvent'.err.type = "not-supported"
                  /\ flows' = flows
       /\ \A f \in FlowIds :
            /\ (flows[f].pc = "idle" /\ flows'[f].pc # "idle")
                 => lastEvent'.op = "handleWebAuthnAuthentication"
            /\ (flows[f].pc \in BiometricPcs /\ flows'[f] # flows[f])
                 => flows'[f].pc \in CameraPcs \cup {"idle"}
            /\ (flows[f].pc \in CameraPcs /\ flows'[f] # flows[f])
                 => flows'[f].pc = "idle"]_vars

\* A click with a credential stored has just issued credentials.get.
C19_Witness ==
    /\ lastEvent.op = "handleWebAuthnAuthentication"
    /\ lastEvent.by = "flow"
    /\ getStoredCredentialId(localStorage).has
    /\ \E f \in FlowIds : flows[f].pc = "authenticateUser"

\* C20: the camera toggle is a machine of its own.  A click while off
\* starts a request and disables the toggle, so at most one request started
\* by the toggle is pending; when the request succeeds the camera is on
\* (isCameraActive true, the new stream tracked and shown); when it fails
\* the camera is off, the error is displayed and the toggle enabled; a
\* click while on stops the tracked stream and turns the camera off.  No
\* step of the toggle changes isAuthenticating or isAuthenticated, the
\* credential store, or the biometric calls in flight.
C20_ToggleStateMachine ==
    [][/\ startCameraCalls' <= 1
       /\ startCameraCalls' = 1 <=> toggleButton'.disabled
       /\ lastEvent'.by = "toggle"
          => /\ UNCHANGED <<isAuthenticating, isAuthenticated, webauthnButton,
                            storeVars, flows, timers, direct>>
             /\ CredentialCallsInFlight' = CredentialCallsInFlight
       /\ (lastEvent'.by = "toggle" /\ lastEvent'.pending)
          => /\ ~isCameraActive /\ ~isCameraActive'
             /\ ~toggleButton.disabled /\ toggleButton'.disabled
             /\ startCameraCalls = 0
             /\ UNCHANGED <<cameraVars, video>>
       /\ (lastEvent'.by = "toggle" /\ lastEvent'.op = "handleStopCamera")
          => /\ isCameraActive /\ ~isCameraActive'
             /\ currentStream' = 0
             /\ currentStream \notin live'
             /\ video' = [srcObject |-> 0, active |-> FALSE]
             /\ toggleButton' = [disabled |-> FALSE, text |-> TextEnableCamera,
                                 active |-> FALSE]
       /\ (lastEvent'.op = "requestCameraAccess" /\ lastEvent'.by = "toggle"
             /\ lastEvent'.ok /\ ~lastEvent'.pending)
          => /\ startCameraCalls = 1
             /\ isCameraActive'
             /\ currentStream' \in live' /\ currentStream' \notin live
             /\ video' = [srcObject |-> currentStream', active |-> TRUE]
             /\ toggleButton' = [disabled |-> FALSE, text |-> TextStopCamera,
                                 active |-> TRUE]
       /\ (lastEvent'.op = "requestCameraAccess" /\ lastEvent'.by = "toggle"
             /\ ~lastEvent'.ok /\ ~lastEvent'.pending)
          => /\ ~isCameraActive'
             /\ messages'.errorMessage =
                    [hidden |-> FALSE, text |-> lastEvent'.err.message]
             /\ toggleButton' = [disabled |-> FALSE, text |-> TextEnableCamera,
                                 active |-> FALSE]
             /\ UNCHANGED cameraVars]_vars

\* The toggle has turned the camera on while a biometric flow is in
\* progress, and the flow's flags are as the flow left them.
C20_Witness ==
    /\ lastEvent.op = "requestCameraAccess"
    /\ lastEvent.by = "toggle"
    /\ lastEvent.ok /\ ~lastEvent.pending
    /\ isCameraActive
    /\ isAuthenticating
    /\ \E f \in FlowIds : flows[f].pc \in BiometricPcs

\* C21: whenever isCameraActive is true the camera gateway tracks a stream
\* whose tracks are live; no timer, catch block or other flow stops the
\* stream and leaves the toggle on.
C21_CameraActiveImpliesLiveStream ==
    isCameraActive => (currentStream # 0 /\ currentStream \in live)

\* C22: the auto-stop timer a flow armed stops only the stream that flow's
\* secondary request acquired: a step of the timer stops no stream other
\* than one acquired by a secondary request, so never a stream the camera
\* toggle acquired.
C22_AutoStopOnlyPreview ==
    [][lastEvent'.op = "autoStop" => (live \ live') \subseteq previews]_vars

\* C23: between the steps of the page's handlers the video element has a
\* stream attached exactly when the camera gateway tracks one, and then it
\* is the same stream; so the test on video.srcObject in the catch block of
\* handleWebAuthnAuthentication is a test on the tracked stream.
C23_VideoAgreesWithGateway == video.srcObject = currentStream

\* The catch block of a flow has just found a stream on the video element
\* and stopped it: nothing is attached and nothing is tracked, after a
\* failure that followed a successful camera request.
C23_Witness ==
    /\ lastEvent.op \in BiometricPcs
    /\ lastEvent.by = "flow"
    /\ ~lastEvent.ok
    /\ isCameraActive
    /\ video.srcObject = 0
    /\ currentStream = 0

\* C24: the page's flows write the stored credential id only when
\* registerCredential succeeds, and then with the id of the new credential;
\* a failed registration, every authentication, failed or not, and every
\* camera step leave it as it is, and nothing clears it.  So once an id is
\* stored it stays, and every later flow that reaches a platform call
\* issues credentials.get, never credentials.create.
C24_CredentialStoreFrame ==
    [][/\ localStorage' # localStorage
          => /\ lastEvent'.op = "registerCredential" /\ lastEvent'.ok
             /\ localStorage' = storeCredentialId(lastEvent'.rawId)
       /\ getStoredCredentialId(localStorage).has
          => /\ localStorage' = localStorage
             /\ \A f \in FlowIds : flows'[f].pc # "registerCredential"
             /\ (lastEvent'.op = "handleWebAuthnAuthentication"
                   /\ lastEvent'.by = "flow" /\ hasWebAuthn)
                => \E f \in FlowIds :
                     flows[f].pc = "idle" /\ flows'[f].pc = "authenticateUser"]_vars

\* An authentication has just failed and the credential id is still stored.
C24_Witness ==
    /\ lastEvent.op = "authenticateUser"
    /\ lastEvent.by = "flow"
    /\ ~lastEvent.ok
    /\ getStoredCredentialId(localStorage).has

====
